---- MODULE Spec2Model ----
(***************************************************************************)
(* The raw key-value request layer of src/raw.rs: the Client handle, its   *)
(* nine request builders (Get, BatchGet, Put, BatchPut, Delete,            *)
(* BatchDelete, Scan, BatchScan, DeleteRange), their configuration calls   *)
(* (cf, key_only, reverse), the Connect bootstrap future, and what         *)
(* awaiting any of them does.                                              *)
(*                                                                         *)
(* Every `poll` of the file has the body `unimplemented!()`: driving a     *)
(* future of this file panics before anything is handed to a dispatcher.   *)
(***************************************************************************)
EXTENDS Integers, Sequences, FiniteSets

VARIABLES
    cur,        \* the future the caller holds and has not awaited (NoBuilder: none)
    call,       \* the Client method call that made cur, with its arguments
    prev,       \* the last future awaited: how the await ended and the requests
                \* its poll handed to the dispatcher (NoAwait: none awaited yet)
    dispatched, \* number of requests the layer has handed to the dispatcher
    store       \* contents of the cluster: partition -> key -> value or Absent

vars == <<cur, call, prev, dispatched, store>>

---------------------------------------------------------------------------
(* Bounds and input sets *)

\* keys are byte strings; the model writes them 1..MaxKey, in byte-wise order
MaxKey == 2
\* longest list of keys, pairs or ranges given to a batch constructor
MaxBatch == 2

\* a u32 is written as its two 16-bit halves <<high, low>>, the value
\* high * 2^16 + low (TLC's own integers stop at 2^31 - 1)
U32(high, low) == <<high, low>>
\* std::u32::MAX = 2^32 - 1
U32Max == U32(65535, 65535)
\* a count 0..65535 as a u32
U32Of(n) == U32(0, n)
\* a <= b on u32
U32Leq(a, b) == a[1] < b[1] \/ (a[1] = b[1] /\ a[2] <= b[2])

Keys == 1..MaxKey
Values == {"v1", "v2"}
Absent == "absent"
CfInputs == {"default", "write"}
Configs == {"pd-a", "pd-b"}

\* the key lists a caller gives a batch: the first key repeated (duplicates
\* included), and the first n keys in order
KeyLists ==
    {[i \in 1..n |-> 1] : n \in 0..MaxBatch}
        \cup {[i \in 1..n |-> i] : n \in {m \in 0..MaxBatch : m <= MaxKey}}
PairLists == {[i \in 1..Len(ks) |-> <<ks[i], v>>] : ks \in KeyLists, v \in Values}

\* std::ops::Bound
Unbounded == <<"Unbounded">>
Included(k) == <<"Included", k>>
Excluded(k) == <<"Excluded", k>>

\* the range expressions a caller writes over the first and the last key:
\* a..=b, a..b, (Excluded(a), Unbounded), and the empty a..a
RangeInputs ==
    { [start |-> Included(1), end |-> Included(MaxKey)],
      [start |-> Included(1), end |-> Excluded(MaxKey)],
      [start |-> Excluded(1), end |-> Unbounded],
      [start |-> Included(1), end |-> Excluded(1)] }
RangeLists ==
    { <<[start |-> Included(1), end |-> Included(MaxKey)]>>,
      <<[start |-> Included(1), end |-> Excluded(1)],
        [start |-> Excluded(1), end |-> Unbounded]>> }

\* Option<T>
None == <<>>
Some(x) == <<x>>
LimitInputs == {None, Some(U32Of(0)), Some(U32Of(1)), Some(U32Max)}

\* the cluster contents an execution starts from: key 1 is in partition
\* `default`, nothing else is anywhere
EmptyPartition == [k \in Keys |-> Absent]
InitialStore ==
    [c \in CfInputs |-> IF c = "default"
                          THEN [EmptyPartition EXCEPT ![1] = "v1"]
                          ELSE EmptyPartition]

NoBuilder == [kind |-> "None"]
NoCall == [op |-> "none", args |-> <<>>, fresh |-> FALSE]
NoAwait == [req |-> NoBuilder, res |-> [tag |-> "none"], sent |-> <<>>]

BuilderKinds ==
    {"Get", "BatchGet", "Put", "BatchPut", "Delete", "BatchDelete",
     "Scan", "BatchScan", "DeleteRange"}

---------------------------------------------------------------------------
(* The types and functions of the file *)

\* Option::unwrap_or
UnwrapOr(o, d) == IF o = None THEN d ELSE o[1]

\* T: ToString on a string input gives the same characters
ToString(i) == i

\* impl From<T> for ColumnFamily
ColumnFamilyFrom(i) == ToString(i)

GetNew(key) == [kind |-> "Get", key |-> key, cf |-> None]

BatchGetNew(keys) == [kind |-> "BatchGet", keys |-> keys, cf |-> None]

PutNew(key, value) == [kind |-> "Put", key |-> key, value |-> value, cf |-> None]

BatchPutNew(pairs) == [kind |-> "BatchPut", pairs |-> pairs, cf |-> None]

DeleteNew(key) == [kind |-> "Delete", key |-> key, cf |-> None]

BatchDeleteNew(keys) == [kind |-> "BatchDelete", keys |-> keys, cf |-> None]

\* a faulty Scan::new, starting with key_only set (C3 must tell it apart)
ScanNewKeyOnly(range, limit) ==
    [kind |-> "Scan", range |-> range, limit |-> limit,
     key_only |-> TRUE, cf |-> None, reverse |-> FALSE]
\* Scan::new
ScanNew(range, limit) ==
    [kind |-> "Scan", range |-> range, limit |-> limit,
     key_only |-> FALSE, cf |-> None, reverse |-> FALSE]

BatchScanNew(ranges, each_limit) ==
    [kind |-> "BatchScan", ranges |-> ranges, each_limit |-> each_limit,
     key_only |-> FALSE, cf |-> None, reverse |-> FALSE]

DeleteRangeNew(range) == [kind |-> "DeleteRange", range |-> range, cf |-> None]

ConnectNew(config) == [kind |-> "Connect", config |-> config]

\* a faulty Client::scan, defaulting the limit to 0 (C2 must tell it apart)
ScanOfDefaultZero(range, limit) == ScanNew(range, UnwrapOr(limit, U32Of(0)))
\* the builder Client::scan returns
ScanOf(range, limit) == ScanNew(range, UnwrapOr(limit, U32Max))

\* the builder Client::batch_scan returns
BatchScanOf(ranges, each_limit) == BatchScanNew(ranges, UnwrapOr(each_limit, U32Max))

\* the cf method, the same body on each of the nine builders
WithCf(b, x) == [b EXCEPT !.cf = Some(ColumnFamilyFrom(x))]

\* a faulty key_only that also puts reverse back to false (C13 must tell it
\* apart)
WithKeyOnlyClearsReverse(b) == [b EXCEPT !.key_only = TRUE, !.reverse = FALSE]
\* Scan::key_only, BatchScan::key_only
WithKeyOnly(b) == [b EXCEPT !.key_only = TRUE]

\* Scan::reverse, BatchScan::reverse
WithReverse(b) == [b EXCEPT !.reverse = TRUE]

\* the ways an await can end: the future resolved to a value, resolved to a
\* failure, or its poll panicked
Ok(v) == [tag |-> "ok", val |-> v]
Err(e) == [tag |-> "err", err |-> e]
Panicked == [tag |-> "panic"]

\* unimplemented!(): panics; nothing was sent, nothing is returned
Unimplemented == [res |-> Panicked, sent |-> <<>>]

\* the poll of each future: how it ends, and the requests it hands to the
\* dispatcher
GetPoll(b) == Unimplemented
BatchGetPoll(b) == Unimplemented
PutPoll(b) == Unimplemented
BatchPutPoll(b) == Unimplemented
DeletePoll(b) == Unimplemented
BatchDeletePoll(b) == Unimplemented
ScanPoll(b) == Unimplemented
BatchScanPoll(b) == Unimplemented
DeleteRangePoll(b) == Unimplemented
ConnectPoll(b) == Unimplemented

Poll(b) ==
    CASE b.kind = "Get" -> GetPoll(b)
      [] b.kind = "BatchGet" -> BatchGetPoll(b)
      [] b.kind = "Put" -> PutPoll(b)
      [] b.kind = "BatchPut" -> BatchPutPoll(b)
      [] b.kind = "Delete" -> DeletePoll(b)
      [] b.kind = "BatchDelete" -> BatchDeletePoll(b)
      [] b.kind = "Scan" -> ScanPoll(b)
      [] b.kind = "BatchScan" -> BatchScanPoll(b)
      [] b.kind = "DeleteRange" -> DeleteRangePoll(b)
      [] b.kind = "Connect" -> ConnectPoll(b)

\* type Error of each future: `Error` (the crate's error type) or `()`
ErrorType(kind) == IF kind \in {"Get", "Connect"} THEN "Error" ELSE "()"

\* the failures a dispatcher can answer with, by kind
DispatcherFailures == {"Connection", "NotFound", "Transport", "PartialBatch"}

\* a dispatcher failure f as a value of the Error type of a future of this
\* kind: `Error` holds f itself, `()` has the one value () whatever f was
AsError(kind, f) == IF ErrorType(kind) = "Error" THEN f ELSE "()"

---------------------------------------------------------------------------
(* Actions *)

Init ==
    /\ cur = NoBuilder
    /\ call = NoCall
    /\ prev = NoAwait
    /\ dispatched = 0
    /\ store = InitialStore

\* the record of a Client method call that has just returned a future
Called(op, args) == [op |-> op, args |-> args, fresh |-> TRUE]

\* Client::new (a future held before is dropped unawaited; so in every
\* Client method below)
ClientNew ==
    \E config \in Configs :
        /\ cur' = ConnectNew(config)
        /\ call' = Called("new", <<config>>)
        /\ UNCHANGED <<prev, dispatched, store>>

\* Client::get
ClientGet ==
    \E key \in Keys :
        /\ cur' = GetNew(key)
        /\ call' = Called("get", <<key>>)
        /\ UNCHANGED <<prev, dispatched, store>>

\* Client::batch_get
ClientBatchGet ==
    \E keys \in KeyLists :
        /\ cur' = BatchGetNew(keys)
        /\ call' = Called("batch_get", <<keys>>)
        /\ UNCHANGED <<prev, dispatched, store>>

\* Client::put
ClientPut ==
    \E key \in Keys, value \in Values :
        /\ cur' = PutNew(key, value)
        /\ call' = Called("put", <<key, value>>)
        /\ UNCHANGED <<prev, dispatched, store>>

\* Client::batch_put
ClientBatchPut ==
    \E pairs \in PairLists :
        /\ cur' = BatchPutNew(pairs)
        /\ call' = Called("batch_put", <<pairs>>)
        /\ UNCHANGED <<prev, dispatched, store>>

\* Client::delete
ClientDelete ==
    \E key \in Keys :
        /\ cur' = DeleteNew(key)
        /\ call' = Called("delete", <<key>>)
        /\ UNCHANGED <<prev, dispatched, store>>

\* Client::batch_delete
ClientBatchDelete ==
    \E keys \in KeyLists :
        /\ cur' = BatchDeleteNew(keys)
        /\ call' = Called("batch_delete", <<keys>>)
        /\ UNCHANGED <<prev, dispatched, store>>

\* Client::scan
ClientScan ==
    \E range \in RangeInputs, limit \in LimitInputs :
        /\ cur' = ScanOf(range, limit)
        /\ call' = Called("scan", <<range, limit>>)
        /\ UNCHANGED <<prev, dispatched, store>>

\* Client::batch_scan
ClientBatchScan ==
    \E ranges \in RangeLists, each_limit \in LimitInputs :
        /\ cur' = BatchScanOf(ranges, each_limit)
        /\ call' = Called("batch_scan", <<ranges, each_limit>>)
        /\ UNCHANGED <<prev, dispatched, store>>

\* Client::delete_range
ClientDeleteRange ==
    \E range \in RangeInputs :
        /\ cur' = DeleteRangeNew(range)
        /\ call' = Called("delete_range", <<range>>)
        /\ UNCHANGED <<prev, dispatched, store>>

\* <builder>.cf(x)
Cf ==
    /\ cur.kind \in BuilderKinds
    /\ \E x \in CfInputs : cur' = WithCf(cur, x)
    /\ call' = [call EXCEPT !.fresh = FALSE]
    /\ UNCHANGED <<prev, dispatched, store>>

\* Scan::key_only, BatchScan::key_only
KeyOnly ==
    /\ cur.kind \in {"Scan", "BatchScan"}
    /\ cur' = WithKeyOnly(cur)
    /\ call' = [call EXCEPT !.fresh = FALSE]
    /\ UNCHANGED <<prev, dispatched, store>>

\* Scan::reverse, BatchScan::reverse
Reverse ==
    /\ cur.kind \in {"Scan", "BatchScan"}
    /\ cur' = WithReverse(cur)
    /\ call' = [call EXCEPT !.fresh = FALSE]
    /\ UNCHANGED <<prev, dispatched, store>>

\* the caller drives the future it holds to completion (wait()), which polls it
Await ==
    /\ cur # NoBuilder
    /\ prev' = [req |-> cur, res |-> Poll(cur).res, sent |-> Poll(cur).sent]
    /\ dispatched' = dispatched + Len(Poll(cur).sent)
    /\ cur' = NoBuilder
    /\ call' = NoCall
    /\ UNCHANGED store

Next ==
    \/ ClientNew
    \/ ClientGet
    \/ ClientBatchGet
    \/ ClientPut
    \/ ClientBatchPut
    \/ ClientDelete
    \/ ClientBatchDelete
    \/ ClientScan
    \/ ClientBatchScan
    \/ ClientDeleteRange
    \/ Cf
    \/ KeyOnly
    \/ Reverse
    \/ Await

Spec == Init /\ [][Next]_vars

---------------------------------------------------------------------------
(* Properties *)

\* the partition a builder names: its selector, or `default` when unset
PartitionOf(b) == IF b.cf = None THEN "default" ELSE b.cf[1]

\* prev holds an await that did not end in a failure from the dispatcher
Undisturbed == prev.req # NoBuilder /\ prev.res.tag # "err"

\* C1: awaiting any of the nine builders, or Connect, hands exactly one
\* request to the dispatcher and ends in the declared success value or in a
\* failure, never in anything else.
C1_OneDispatchTwoOutcomes ==
    prev.req # NoBuilder =>
        /\ Len(prev.sent) = 1
        /\ prev.res.tag \in {"ok", "err"}

\* the limit Client::scan and Client::batch_scan are to store for the limit
\* argument o
LimitFor(o) == IF Len(o) = 0 THEN <<65535, 65535>> ELSE o[1]

\* C2: the limit of a Scan or BatchScan builder is 2^32 - 1 when the
\* constructor was given None and exactly n when it was given n, and stays so
\* through every later configuration call.
C2_LimitDefaultAndKept ==
    /\ cur.kind = "Scan" => call.op = "scan" /\ cur.limit = LimitFor(call.args[2])
    /\ cur.kind = "BatchScan" =>
           call.op = "batch_scan" /\ cur.each_limit = LimitFor(call.args[2])

\* a Scan made with no limit and a BatchScan made with limit 0 that have
\* since been configured, and a fresh Scan given the largest limit
C2_Witness ==
    \/ /\ cur.kind = "Scan" /\ call.args[2] = None /\ ~call.fresh
       /\ cur.reverse /\ cur.cf # None /\ cur.limit = U32Max
    \/ /\ cur.kind = "BatchScan" /\ call.args[2] = Some(U32Of(0)) /\ ~call.fresh
       /\ cur.key_only /\ cur.each_limit = U32Of(0)

\* the builder a Client method is to return for its arguments
Packaged(op, args) ==
    CASE op = "get" -> [kind |-> "Get", key |-> args[1], cf |-> None]
      [] op = "batch_get" -> [kind |-> "BatchGet", keys |-> args[1], cf |-> None]
      [] op = "put" -> [kind |-> "Put", key |-> args[1], value |-> args[2], cf |-> None]
      [] op = "batch_put" -> [kind |-> "BatchPut", pairs |-> args[1], cf |-> None]
      [] op = "delete" -> [kind |-> "Delete", key |-> args[1], cf |-> None]
      [] op = "batch_delete" -> [kind |-> "BatchDelete", keys |-> args[1], cf |-> None]
      [] op = "scan" -> [kind |-> "Scan", range |-> args[1], limit |-> LimitFor(args[2]),
                         key_only |-> FALSE, cf |-> None, reverse |-> FALSE]
      [] op = "batch_scan" -> [kind |-> "BatchScan", ranges |-> args[1],
                               each_limit |-> LimitFor(args[2]),
                               key_only |-> FALSE, cf |-> None, reverse |-> FALSE]
      [] op = "delete_range" -> [kind |-> "DeleteRange", range |-> args[1], cf |-> None]
      [] op = "new" -> [kind |-> "Connect", config |-> args[1]]

\* C3: a Client constructor method only packages its parameters: the step
\* hands nothing to the dispatcher, leaves the store and the record of past
\* awaits unchanged, and returns a builder with exactly the given parameters,
\* no partition selector, key_only and reverse false; and as long as nothing
\* has been awaited, nothing has been dispatched.  (Client is a unit struct:
\* it has no state a call could change.)
C3_ConstructorsOnlyPackage ==
    /\ [](prev = NoAwait => dispatched = 0)
    /\ [][call'.fresh =>
            /\ dispatched' = dispatched
            /\ store' = store
            /\ prev' = prev
            /\ cur' = Packaged(call'.op, call'.args)]_vars

\* a batch_scan of two ranges has just returned, nothing was ever awaited
C3_Witness ==
    /\ call.fresh /\ call.op = "batch_scan" /\ Len(call.args[1]) = 2
    /\ cur.kind = "BatchScan" /\ cur.cf = None /\ ~cur.key_only /\ ~cur.reverse
    /\ prev = NoAwait /\ dispatched = 0

\* C4: the request an awaited builder dispatches targets partition `default`
\* when no cf call was made and the partition named by x after cf(x).
C4_DispatchTargetsPartition ==
    prev.req.kind \in BuilderKinds =>
        /\ Len(prev.sent) = 1
        /\ prev.sent[1].cf = PartitionOf(prev.req)

\* the future the caller holds is awaited in this step
Awaits(b) == cur = b /\ b # NoBuilder /\ prev'.req = b

\* the value of Put, Delete and the other futures that resolve to ()
Unit == <<>>

\* C5: a get(k) awaited after put(k, v) was awaited on the same partition,
\* with no await in between and no failure of the put, resolves to exactly v
\* (v being the last value put).
C5_PutThenGet ==
    [][(/\ Undisturbed
        /\ prev.req.kind = "Put"
        /\ cur.kind = "Get"
        /\ cur.key = prev.req.key
        /\ PartitionOf(cur) = PartitionOf(prev.req)
        /\ Awaits(cur))
       => prev'.res = Ok(prev.req.value)]_vars

\* C6: absent a dispatcher failure an awaited delete(k) resolves to success,
\* whether or not k has an entry, and leaves k without one; a get(k) awaited
\* right after it on the same partition fails with not-found.
C6_DeleteIdempotent ==
    [][/\ (cur.kind = "Delete" /\ Awaits(cur) /\ prev'.res.tag # "err")
           => /\ prev'.res = Ok(Unit)
              /\ store'[PartitionOf(cur)][cur.key] = Absent
       /\ (/\ Undisturbed
           /\ prev.req.kind = "Delete"
           /\ cur.kind = "Get"
           /\ cur.key = prev.req.key
           /\ PartitionOf(cur) = PartitionOf(prev.req)
           /\ Awaits(cur))
           => prev'.res = Err("NotFound")]_vars

\* the elements of a sequence
Elems(seq) == {seq[i] : i \in 1..Len(seq)}

\* C7: absent a dispatcher failure an awaited batch_get(keys) resolves to
\* exactly the (key, value) pairs of the input keys that have an entry in the
\* targeted partition, one entry per key at most.
C7_BatchGetOmitsAbsent ==
    (prev.req.kind = "BatchGet" /\ prev.res.tag # "err") =>
        /\ prev.res.tag = "ok"
        /\ \A i, j \in 1..Len(prev.res.val) :
               prev.res.val[i][1] = prev.res.val[j][1] => i = j
        /\ Elems(prev.res.val) =
               {<<k, store[PartitionOf(prev.req)][k]>> :
                    k \in {x \in Elems(prev.req.keys) :
                               store[PartitionOf(prev.req)][x] # Absent}}

\* key k lies within the bound pair r
InRange(k, r) ==
    /\ \/ r.start = Unbounded
       \/ r.start[1] = "Included" /\ r.start[2] <= k
       \/ r.start[1] = "Excluded" /\ r.start[2] < k
    /\ \/ r.end = Unbounded
       \/ r.end[1] = "Included" /\ k <= r.end[2]
       \/ r.end[1] = "Excluded" /\ k < r.end[2]

\* the keys of a finite set in ascending order
Ascending(S) ==
    CHOOSE seq \in [1..Cardinality(S) -> S] :
        \A i, j \in 1..Cardinality(S) : i < j => seq[i] < seq[j]

\* a sequence back to front
Backwards(seq) == [i \in 1..Len(seq) |-> seq[Len(seq) + 1 - i]]

\* what a scan of range r in partition c resolves to when no limit cuts it
Unlimited(c, r, key_only, reverse) ==
    LET keys == Ascending({k \in Keys : store[c][k] # Absent /\ InRange(k, r)})
        ordered == IF reverse THEN Backwards(keys) ELSE keys
    IN  [i \in 1..Len(ordered) |->
            <<ordered[i], IF key_only THEN "" ELSE store[c][ordered[i]]>>]

\* C8: absent a dispatcher failure an awaited scan with no limit resolves to
\* exactly the entries whose key lies within its bound pair, ascending by key,
\* or descending with reverse set; an empty range gives the empty sequence.
C8_ScanBoundsAndOrder ==
    (prev.req.kind = "Scan" /\ prev.res.tag # "err" /\ prev.req.limit = U32Max) =>
        prev.res = Ok(Unlimited(PartitionOf(prev.req), prev.req.range,
                                prev.req.key_only, prev.req.reverse))

\* C9: absent a dispatcher failure an awaited scan with limit n resolves to at
\* most n entries, a prefix of what the same scan resolves to with no limit.
C9_ScanLimitPrefix ==
    (prev.req.kind = "Scan" /\ prev.res.tag # "err") =>
        /\ prev.res.tag = "ok"
        /\ U32Leq(U32Of(Len(prev.res.val)), prev.req.limit)
        /\ Len(prev.res.val) <= Len(Unlimited(PartitionOf(prev.req), prev.req.range,
                                              prev.req.key_only, prev.req.reverse))
        /\ prev.res.val =
               SubSeq(Unlimited(PartitionOf(prev.req), prev.req.range,
                                prev.req.key_only, prev.req.reverse),
                      1, Len(prev.res.val))

\* the kinds of future that write
WriteKinds == {"Put", "BatchPut", "Delete", "BatchDelete", "DeleteRange"}

\* C10: a get(k) awaited after put(k, v1) on partition A was awaited resolves
\* to v1 on partition A and fails with not-found on another partition where k
\* has no entry; awaiting a write leaves every other partition's entries as
\* they were.
C10_PartitionIsolation ==
    [][/\ (/\ Undisturbed
           /\ prev.req.kind = "Put"
           /\ cur.kind = "Get"
           /\ cur.key = prev.req.key
           /\ Awaits(cur))
           => IF PartitionOf(cur) = PartitionOf(prev.req)
                THEN prev'.res = Ok(prev.req.value)
                ELSE store[PartitionOf(cur)][cur.key] = Absent
                         => prev'.res = Err("NotFound")
       /\ (cur.kind \in WriteKinds /\ Awaits(cur))
           => \A c \in CfInputs \ {PartitionOf(cur)} : store'[c] = store[c]]_vars

\* C11: for every kind of operation, a failure of the dispatcher reaches the
\* caller of the awaited operation as that same failure, unchanged and
\* distinguishable by kind: whatever failure f the dispatcher answers an
\* awaited future with, the value the future's Error type lets it fail with
\* is f.
C11_FailurePassThrough ==
    prev.req # NoBuilder =>
        \A f \in DispatcherFailures : AsError(prev.req.kind, f) = f

\* the first entries of seq, as many as the u32 limit allows
Limited(seq, limit) ==
    IF U32Leq(U32Of(Len(seq)), limit) THEN seq ELSE SubSeq(seq, 1, limit[2])

\* what a standalone scan of range r resolves to under the settings of the
\* batch scan b
StandaloneScan(b, r) ==
    Limited(Unlimited(PartitionOf(b), r, b.key_only, b.reverse), b.each_limit)

\* C12: absent a dispatcher failure an awaited batch_scan resolves to one
\* portion per input range, in the order of the ranges, and each portion is
\* what a standalone Scan of that range with the same limit, key_only and
\* reverse resolves to, whatever the other ranges hold.
C12_BatchScanPerRange ==
    (prev.req.kind = "BatchScan" /\ prev.res.tag # "err") =>
        /\ prev.res.tag = "ok"
        /\ Len(prev.res.val) = Len(prev.req.ranges)
        /\ \A i \in 1..Len(prev.req.ranges) :
               prev.res.val[i] = StandaloneScan(prev.req, prev.req.ranges[i])

\* records a and b have the same fields and agree on all of them but `fields`
SameExcept(a, b, fields) ==
    /\ DOMAIN a = DOMAIN b
    /\ \A f \in DOMAIN a \ fields : a[f] = b[f]

\* the configuration calls on builder b each change their own field only,
\* repeat without effect and commute
ConfiguresOwnField(b) ==
    /\ \A x \in CfInputs :
           /\ WithCf(b, x).cf = <<x>>
           /\ SameExcept(WithCf(b, x), b, {"cf"})
           /\ \A y \in CfInputs : WithCf(WithCf(b, x), y) = WithCf(b, y)
    /\ b.kind \in {"Scan", "BatchScan"} =>
           /\ WithKeyOnly(b).key_only = TRUE
           /\ SameExcept(WithKeyOnly(b), b, {"key_only"})
           /\ WithKeyOnly(WithKeyOnly(b)) = WithKeyOnly(b)
           /\ WithReverse(b).reverse = TRUE
           /\ SameExcept(WithReverse(b), b, {"reverse"})
           /\ WithReverse(WithReverse(b)) = WithReverse(b)
           /\ WithReverse(WithKeyOnly(b)) = WithKeyOnly(WithReverse(b))
           /\ \A x \in CfInputs :
                  /\ WithCf(WithKeyOnly(b), x) = WithKeyOnly(WithCf(b, x))
                  /\ WithCf(WithReverse(b), x) = WithReverse(WithCf(b, x))

====
